---- MODULE Spec2Model ----
(***************************************************************************)
(* Model of the hybrid-search demo: the ingestion script (src/ingest.py)   *)
(* and the search application (src/hybrid_search.py): create_filter,       *)
(* generate_embeddings and search_couchbase.                                *)
(*                                                                         *)
(* The two scripts are separate programs.  The variable `entry` records    *)
(* which entry point a behaviour exercises: the ingestion run, a call of   *)
(* create_filter, or invocations of search_couchbase.                      *)
(***************************************************************************)
EXTENDS Integers, Sequences, FiniteSets

VARIABLES
    entry,            \* "ingest" | "create_filter" | "search_couchbase"
    \* ---- create_filter
    fpc,              \* "idle" | "returned"
    fargs,            \* arguments of the last call
    filter,           \* the dict the last call returned
    \* ---- search_couchbase
    spc,              \* position inside search_couchbase
    invocation,       \* number of invocations started
    k,                \* argument k
    search_text,      \* argument search_text
    search_options,   \* argument search_options
    search_embedding, \* local search_embedding
    search_req,       \* local search_req
    store_rows,       \* rows the store yields for the issued search
    pos,              \* rows already read from search_iter.rows()
    docs_with_score,  \* local docs_with_score
    outcome,          \* how the invocation ended
    embedCalls,       \* embedding requests issued by this invocation
    storeCalls,       \* store searches issued by this invocation
    storeError,       \* error the store raised in this invocation, if any
    embeddedBefore,   \* texts embedded by earlier invocations
    \* ---- ingest.py
    ipc,              \* position inside the ingestion script
    run,              \* number of the current execution of the script
    csv,              \* rows of the dataset file
    data_in_dict,     \* normalised records (line 83)
    idx,              \* index of the row the loop is at
    row,              \* the loop's current row dict
    collection,       \* documents in the collection, by id
    issued,           \* ids uuid4 has returned so far
    embedReq,         \* per row: embedding requests in this run
    upsertReq,        \* per row: upsert calls in this run
    failedRows,       \* rows of this run whose embedding or upsert raised
    succeededRows,    \* rows of this run that were upserted
    okUpserts         \* successful upserts over all runs

filterVars == <<fpc, fargs, filter>>
searchVars == <<spc, invocation, k, search_text, search_options, search_embedding,
                search_req, store_rows, pos, docs_with_score, outcome, embedCalls,
                storeCalls, storeError, embeddedBefore>>
ingestVars == <<ipc, run, csv, data_in_dict, idx, row, collection, issued,
                embedReq, upsertReq, failedRows, succeededRows, okUpserts>>
vars == <<entry, filterVars, searchVars, ingestVars>>

(***************************************************************************)
(* Bounds of the model.                                                    *)
(***************************************************************************)
MaxYear == 2          \* years range over 0..MaxYear
MaxRating == 2        \* ratings range over 0..MaxRating (0 stands for 0.0)
MaxK == 2             \* k ranges over -1..MaxK
MaxStoreRows == 2     \* the store yields at most this many rows
MaxInvocations == 2   \* invocations of search_couchbase in one behaviour
NumRows == 2          \* rows of the dataset
MaxRuns == 2          \* executions of the ingestion script

(***************************************************************************)
(* Python values.  None, floats, tuples and bools are tagged so that       *)
(* truthiness can be computed the way the interpreter computes it.         *)
(***************************************************************************)
None == [tag |-> "None"]
PyFloat(v) == [tag |-> "float", val |-> v]
PyTuple(items) == [tag |-> "tuple", items |-> items]

\* bool(v) as `if v:` evaluates it
Truthy(v) ==
    CASE v.tag = "None" -> FALSE
      [] v.tag = "float" -> v.val # 0
      [] v.tag = "tuple" -> Len(v.items) > 0
      [] OTHER -> TRUE

Years == 0..MaxYear
Ratings == 0..MaxRating
Texts == {"", "space adventure"}

YearRanges == {None, PyTuple(<<>>)} \cup {PyTuple(<<lo, hi>>) : lo \in Years, hi \in Years}
RatingArgs == {None} \cup {PyFloat(r) : r \in Ratings}

(***************************************************************************)
(* create_filter (hybrid_search.py 84-120)                                 *)
(* The st.cache_resource decorator of line 83 hands back the dict built by  *)
(* the first call with the same arguments; nothing mutates that dict, so a *)
(* cached call and a fresh one return equal values and the cache is not a  *)
(* variable of the model.                                                  *)
(***************************************************************************)
year_field == "Released_Year"
rating_field == "IMDB_Rating"
title_field == "Series_Title"

\* variant of year_query with an exclusive upper bound
year_query_exclusive_max(year_range) ==
    [min |-> year_range.items[1], max |-> year_range.items[2],
     inclusive_min |-> TRUE, inclusive_max |-> FALSE, field |-> year_field]

year_query(year_range) ==
    [min |-> year_range.items[1], max |-> year_range.items[2],
     inclusive_min |-> TRUE, inclusive_max |-> TRUE, field |-> year_field]

\* variant of rating_query with an inclusive lower bound
rating_query_inclusive(rating) ==
    [min |-> rating.val, inclusive_min |-> TRUE, field |-> rating_field]

rating_query(rating) ==
    [min |-> rating.val, inclusive_min |-> FALSE, field |-> rating_field]

title_query(title) ==
    [match_phrase |-> title, field |-> title_field]

\* variant of create_filter that matches the title whenever a text was typed
create_filter_title_if_text(year_range, rating, search_in_title, title) ==
    LET ops0 == <<>>
        ops1 == IF Truthy(year_range) THEN Append(ops0, year_query(year_range)) ELSE ops0
        ops2 == IF Truthy(rating) THEN Append(ops1, rating_query(rating)) ELSE ops1
        ops3 == IF title # "" THEN Append(ops2, title_query(title)) ELSE ops2
    IN  [query |-> [conjuncts |-> ops3]]

create_filter(year_range, rating, search_in_title, title) ==
    LET ops0 == <<>>
        ops1 == IF Truthy(year_range) THEN Append(ops0, year_query(year_range)) ELSE ops0
        ops2 == IF Truthy(rating) THEN Append(ops1, rating_query(rating)) ELSE ops1
        ops3 == IF search_in_title THEN Append(ops2, title_query(title)) ELSE ops2
    IN  [query |-> [conjuncts |-> ops3]]

\* one call of create_filter with arbitrary arguments
CallCreateFilter ==
    /\ entry = "create_filter"
    /\ fpc = "idle"
    /\ \E yr \in YearRanges, rt \in RatingArgs, st \in BOOLEAN, ti \in Texts :
         /\ fargs' = [year_range |-> yr, rating |-> rt, search_in_title |-> st, title |-> ti]
         /\ filter' = create_filter(yr, rt, st, ti)
    /\ fpc' = "returned"
    /\ UNCHANGED <<entry, searchVars, ingestVars>>

\* the caller is done with the returned dict; the next call can be made
FilterConsumed ==
    /\ entry = "create_filter"
    /\ fpc = "returned"
    /\ fpc' = "idle"
    /\ UNCHANGED <<entry, fargs, filter, searchVars, ingestVars>>

(***************************************************************************)
(* generate_embeddings (hybrid_search.py 28-31, ingest.py 62-65).          *)
(* `serviceOk` is the embedding service's answer to the one request the    *)
(* function makes.  The result records how many requests were issued.      *)
(***************************************************************************)
Embedding(text) == <<"vec", text>>
NoEmbedding == <<"vec", "?">>

\* variant of generate_embeddings that repeats a failed request once
generate_embeddings_retry(input_data, serviceOk) ==
    [requests |-> IF serviceOk THEN 1 ELSE 2,
     raised |-> ~serviceOk,
     embedding |-> IF serviceOk THEN Embedding(input_data) ELSE NoEmbedding]

generate_embeddings(input_data, serviceOk) ==
    [requests |-> 1,
     raised |-> ~serviceOk,
     embedding |-> IF serviceOk THEN Embedding(input_data) ELSE NoEmbedding]

(***************************************************************************)
(* search_couchbase (hybrid_search.py 123-169)                             *)
(***************************************************************************)
\* the default search_options = {} (line 131) and search_filters = {} (line 202)
EmptyDict == [tag |-> "empty dict"]
SearchOptionArgs ==
    {EmptyDict, create_filter(PyTuple(<<0, MaxYear>>), PyFloat(1), FALSE, "")}

StoreErrors == {"QueryTimeout", "IndexNotFound"}
FieldSets == {"fieldsA", "fieldsB"}
Scores == {1, 2}
\* a row of search_iter.rows(): the SDK's SearchRow carries more than fields and score
StoreRows == [id : {"d1"}, fields : FieldSets, score : Scores]

RECURSIVE SeqsUpTo(_, _)
SeqsUpTo(S, n) ==
    IF n = 0 THEN {<<>>}
    ELSE LET shorter == SeqsUpTo(S, n - 1)
         IN  shorter \cup {Append(q, x) : q \in {q \in shorter : Len(q) = n - 1}, x \in S}

StoreResponses == SeqsUpTo(StoreRows, MaxStoreRows)

Running == [status |-> "running", error |-> "none", value |-> <<>>]
Returned(docs) == [status |-> "returned", error |-> "none", value |-> docs]
Raised(e) == [status |-> "raised", error |-> e, value |-> <<>>]

\* variant of AppendRow that puts the newest row first
PrependRow(docs, r) == <<(<<r.fields, r.score>>)>> \o docs

\* lines 164-165: docs_with_score.append((row.fields, score))
AppendRow(docs, r) == Append(docs, <<r.fields, r.score>>)

\* variant of the handler that swallows the error and hands back the rows read
ReturnRowsRead(e, docs) == Returned(docs)

\* lines 166-167: except Exception as e: raise e
HandleSearchException(e, docs) == Raised(e)

\* a new invocation, with arbitrary arguments
SearchInvoke ==
    /\ entry = "search_couchbase"
    /\ spc = "idle"
    /\ invocation < MaxInvocations
    /\ invocation' = invocation + 1
    /\ \E kk \in -1..MaxK, t \in Texts, o \in SearchOptionArgs :
         /\ k' = kk
         /\ search_text' = t
         /\ search_options' = o
    /\ search_embedding' = NoEmbedding
    /\ search_req' = None
    /\ store_rows' = <<>>
    /\ pos' = 0
    /\ docs_with_score' = <<>>
    /\ outcome' = Running
    /\ embedCalls' = 0
    /\ storeCalls' = 0
    /\ storeError' = "none"
    /\ spc' = "embed"
    /\ UNCHANGED <<entry, embeddedBefore, filterVars, ingestVars>>

\* line 135: search_embedding = generate_embeddings(embedding_client, search_text)
SearchEmbed ==
    /\ entry = "search_couchbase"
    /\ spc = "embed"
    /\ \E serviceOk \in BOOLEAN :
         LET r == generate_embeddings(search_text, serviceOk) IN
         /\ embedCalls' = embedCalls + r.requests
         /\ IF r.raised
            THEN /\ outcome' = Raised("EmbeddingServiceError")
                 /\ spc' = "done"
                 /\ UNCHANGED search_embedding
            ELSE /\ search_embedding' = r.embedding
                 /\ spc' = "request"
                 /\ UNCHANGED outcome
    /\ UNCHANGED <<entry, invocation, k, search_text, search_options, search_req,
                   store_rows, pos, docs_with_score, storeCalls, storeError,
                   embeddedBefore, filterVars, ingestVars>>

\* lines 138-146: the SDK's VectorQuery takes k as its number of candidates.  The
\* SDK is not part of the repository: whether it refuses k < 1 is left open.
SearchCreateRequest ==
    /\ entry = "search_couchbase"
    /\ spc = "request"
    /\ \E sdkRefuses \in BOOLEAN :
         IF k < 1 /\ sdkRefuses
         THEN /\ outcome' = Raised("InvalidArgument")
              /\ spc' = "done"
              /\ UNCHANGED search_req
         ELSE /\ search_req' = [tag |-> "SearchRequest", field |-> "Overview_embedding",
                                vector |-> search_embedding, num_candidates |-> k]
              /\ spc' = "search"
              /\ UNCHANGED outcome
    /\ UNCHANGED <<entry, invocation, k, search_text, search_options, search_embedding,
                   store_rows, pos, docs_with_score, embedCalls, storeCalls, storeError,
                   embeddedBefore, filterVars, ingestVars>>

\* lines 152-160: db_scope.search(...): the store fails or hands back its rows
SearchIssue ==
    /\ entry = "search_couchbase"
    /\ spc = "search"
    /\ storeCalls' = storeCalls + 1
    /\ \/ \E e \in StoreErrors :
            /\ storeError' = e
            /\ outcome' = HandleSearchException(e, docs_with_score)
            /\ spc' = "done"
            /\ UNCHANGED store_rows
       \/ \E rows \in StoreResponses :
            /\ store_rows' = rows
            /\ spc' = "rows"
            /\ UNCHANGED <<storeError, outcome>>
    /\ UNCHANGED <<entry, invocation, k, search_text, search_options, search_embedding,
                   search_req, pos, docs_with_score, embedCalls, embeddedBefore,
                   filterVars, ingestVars>>

\* lines 163-165: one step of the loop over search_iter.rows(); reading the
\* next row can fail after earlier rows were read
SearchReadRow ==
    /\ entry = "search_couchbase"
    /\ spc = "rows"
    /\ pos < Len(store_rows)
    /\ \/ /\ docs_with_score' = AppendRow(docs_with_score, store_rows[pos + 1])
          /\ pos' = pos + 1
          /\ UNCHANGED <<spc, outcome, storeError>>
       \/ \E e \in StoreErrors :
            /\ storeError' = e
            /\ outcome' = HandleSearchException(e, docs_with_score)
            /\ spc' = "done"
            /\ UNCHANGED <<docs_with_score, pos>>
    /\ UNCHANGED <<entry, invocation, k, search_text, search_options, search_embedding,
                   search_req, store_rows, embedCalls, storeCalls, embeddedBefore,
                   filterVars, ingestVars>>

\* line 169: return docs_with_score
SearchReturn ==
    /\ entry = "search_couchbase"
    /\ spc = "rows"
    /\ pos = Len(store_rows)
    /\ outcome' = Returned(docs_with_score)
    /\ spc' = "done"
    /\ UNCHANGED <<entry, invocation, k, search_text, search_options, search_embedding,
                   search_req, store_rows, pos, docs_with_score, embedCalls, storeCalls,
                   storeError, embeddedBefore, filterVars, ingestVars>>

\* the caller (lines 286-311) has the result; the application waits for the next submit
SearchFinish ==
    /\ entry = "search_couchbase"
    /\ spc = "done"
    /\ spc' = "idle"
    /\ embeddedBefore' = embeddedBefore \cup {search_text}
    /\ UNCHANGED <<entry, invocation, k, search_text, search_options, search_embedding,
                   search_req, store_rows, pos, docs_with_score, outcome, embedCalls,
                   storeCalls, storeError, filterVars, ingestVars>>

(***************************************************************************)
(* ingest.py.  A cell of the dataset file is a number ("num"), a number    *)
(* written with thousands separators ("commanum", as Gross is), an empty   *)
(* cell ("empty") or other text ("text", such as a Released_Year of "PG"). *)
(***************************************************************************)
Cell(kind, v) == [k |-> kind, v |-> v]

NumericFields == {"Released_Year", "IMDB_Rating", "Gross", "Meta_score"}

CleanRow ==
    [Overview |-> "space adventure", Released_Year |-> Cell("num", 1),
     IMDB_Rating |-> Cell("num", 2), Gross |-> Cell("commanum", 3),
     Meta_score |-> Cell("num", 4)]
SparseRow ==
    [Overview |-> "space adventure", Released_Year |-> Cell("empty", 0),
     IMDB_Rating |-> Cell("empty", 0), Gross |-> Cell("empty", 0),
     Meta_score |-> Cell("empty", 0)]
TextYearRow ==
    [Overview |-> "", Released_Year |-> Cell("text", 0),
     IMDB_Rating |-> Cell("num", 1), Gross |-> Cell("commanum", 2),
     Meta_score |-> Cell("text", 0)]
TextGrossRow ==
    [Overview |-> "", Released_Year |-> Cell("num", 2),
     IMDB_Rating |-> Cell("num", 2), Gross |-> Cell("text", 0),
     Meta_score |-> Cell("num", 1)]
CsvRows == {CleanRow, SparseRow, TextYearRow, TextGrossRow}

\* values of a pandas column / of a stored document field
Float(v) == [t |-> "float", v |-> v, s |-> ""]
NaN == [t |-> "nan", v |-> 0, s |-> ""]
Str(kind, v) == [t |-> "str", v |-> v, s |-> kind]

RowIdx == 1..NumRows
Column(rows, f) == [j \in RowIdx |-> rows[j][f]]

\* line 73, pd.read_csv: a column of numbers and empty cells is read as floats
\* (empty = NaN); a column holding any other text is read as strings (empty = NaN)
IsFloatColumn(cells) == \A j \in RowIdx : cells[j].k \in {"num", "empty"}
read_csv_column(cells) ==
    [j \in RowIdx |->
        IF cells[j].k = "empty" THEN NaN
        ELSE IF IsFloatColumn(cells) THEN Float(cells[j].v)
        ELSE Str(cells[j].k, cells[j].v)]

\* line 76, .str.replace(",", ""): the accessor exists for string columns only
StrAccessorRaises(col) == \A j \in RowIdx : col[j].t # "str"
str_replace_comma(col) ==
    [j \in RowIdx |->
        IF col[j].t = "str" /\ col[j].s = "commanum" THEN Str("num", col[j].v) ELSE col[j]]

\* line 76, .astype(float): raises on a string that is not a number
AstypeFloatRaises(col) == \E j \in RowIdx : col[j].t = "str" /\ col[j].s # "num"
astype_float(col) ==
    [j \in RowIdx |-> IF col[j].t = "str" THEN Float(col[j].v) ELSE col[j]]

\* lines 79, 81, .fillna(value)
fillna(col, value) == [j \in RowIdx |-> IF col[j].t = "nan" THEN Float(value) ELSE col[j]]

GrossFill == 0
MetaScoreFill == -1

\* lines 73-83: does reading and converting the dataset raise?
NormalizeRaises(rows) ==
    LET gross == read_csv_column(Column(rows, "Gross"))
    IN  \/ StrAccessorRaises(gross)
        \/ AstypeFloatRaises(str_replace_comma(gross))

\* lines 73-83: data_in_dict
Normalize(rows) ==
    LET year == read_csv_column(Column(rows, "Released_Year"))
        rating == read_csv_column(Column(rows, "IMDB_Rating"))
        gross == fillna(astype_float(str_replace_comma(
                     read_csv_column(Column(rows, "Gross")))), GrossFill)
        meta == fillna(read_csv_column(Column(rows, "Meta_score")), MetaScoreFill)
    IN  [j \in RowIdx |->
            [Overview |-> rows[j].Overview, Released_Year |-> year[j],
             IMDB_Rating |-> rating[j], Gross |-> gross[j], Meta_score |-> meta[j],
             Overview_embedding |-> NoEmbedding]]

\* line 87: uuid4 draws one of 2^122 values at random.  It is taken to return an
\* identifier it has not returned before; which one is open (the unused ones among
\* the first |used| + 2 identifiers stand for the values it can draw).
uuid4(used) == {u \in 1..(Cardinality(used) + 2) : u \notin used}

\* variant of doc_id that keys the document by its position in the dataset
doc_id_from_position(u, j, r) == j

\* line 87: doc_id = uuid.uuid4().hex
doc_id(u, j, r) == u

\* line 88: collection.upsert(doc_id, row) inserts or replaces the document
upsert(coll, id, doc) ==
    [x \in DOMAIN coll \cup {id} |-> IF x = id THEN doc ELSE coll[x]]

NoRow == [tag |-> "no row"]
NoDocs == [x \in {} |-> NoRow]
ZeroPerRow == [j \in RowIdx |-> 0]

\* lines 69-83: connect, read the dataset, convert and fill the columns
IngestSetup ==
    /\ entry = "ingest"
    /\ ipc = "start"
    /\ \E connected \in BOOLEAN :
         IF ~connected \/ NormalizeRaises(csv)
         THEN /\ ipc' = "error"
              /\ UNCHANGED data_in_dict
         ELSE /\ data_in_dict' = Normalize(csv)
              /\ ipc' = "loop"
    /\ UNCHANGED <<entry, run, csv, idx, row, collection, issued, embedReq, upsertReq,
                   failedRows, succeededRows, okUpserts, filterVars, searchVars>>

\* lines 85-86: take the next row and embed its Overview; an exception leaves
\* the loop for the handler of line 90
IngestEmbed ==
    /\ entry = "ingest"
    /\ ipc = "loop"
    /\ idx <= NumRows
    /\ \E serviceOk \in BOOLEAN :
         LET r == generate_embeddings(data_in_dict[idx].Overview, serviceOk) IN
         /\ embedReq' = [embedReq EXCEPT ![idx] = @ + r.requests]
         /\ IF r.raised
            THEN /\ failedRows' = failedRows \cup {idx}
                 /\ ipc' = "error"
                 /\ UNCHANGED row
            ELSE /\ row' = [data_in_dict[idx] EXCEPT !.Overview_embedding = r.embedding]
                 /\ ipc' = "upsert"
                 /\ UNCHANGED failedRows
    /\ UNCHANGED <<entry, run, csv, data_in_dict, idx, collection, issued, upsertReq,
                   succeededRows, okUpserts, filterVars, searchVars>>

\* lines 87-88: a new id, then the upsert; an exception leaves the loop
IngestUpsert ==
    /\ entry = "ingest"
    /\ ipc = "upsert"
    /\ \E u \in uuid4(issued), stored \in BOOLEAN :
         /\ issued' = issued \cup {u}
         /\ upsertReq' = [upsertReq EXCEPT ![idx] = @ + 1]
         /\ IF stored
            THEN /\ collection' = upsert(collection, doc_id(u, idx, row), row)
                 /\ succeededRows' = succeededRows \cup {idx}
                 /\ okUpserts' = okUpserts + 1
                 /\ idx' = idx + 1
                 /\ ipc' = "loop"
                 /\ UNCHANGED failedRows
            ELSE /\ failedRows' = failedRows \cup {idx}
                 /\ ipc' = "error"
                 /\ UNCHANGED <<collection, succeededRows, okUpserts, idx>>
    /\ UNCHANGED <<entry, run, csv, data_in_dict, row, embedReq, filterVars, searchVars>>

\* line 85: the loop is over
IngestLoopEnd ==
    /\ entry = "ingest"
    /\ ipc = "loop"
    /\ idx > NumRows
    /\ ipc' = "done"
    /\ UNCHANGED <<entry, run, csv, data_in_dict, idx, row, collection, issued, embedReq,
                   upsertReq, failedRows, succeededRows, okUpserts, filterVars, searchVars>>

\* the script is executed again over the same dataset file
IngestRerun ==
    /\ entry = "ingest"
    /\ ipc \in {"done", "error"}
    /\ run < MaxRuns
    /\ run' = run + 1
    /\ ipc' = "start"
    /\ idx' = 1
    /\ row' = NoRow
    /\ data_in_dict' = <<>>
    /\ embedReq' = ZeroPerRow
    /\ upsertReq' = ZeroPerRow
    /\ failedRows' = {}
    /\ succeededRows' = {}
    /\ UNCHANGED <<entry, csv, collection, issued, okUpserts, filterVars, searchVars>>

(***************************************************************************)
(* The specification                                                       *)
(***************************************************************************)
Init ==
    /\ entry \in {"ingest", "create_filter", "search_couchbase"}
    /\ fpc = "idle"
    /\ fargs = [year_range |-> None, rating |-> None, search_in_title |-> FALSE, title |-> ""]
    /\ filter = EmptyDict
    /\ spc = "idle"
    /\ invocation = 0
    /\ k = 5
    /\ search_text = ""
    /\ search_options = EmptyDict
    /\ search_embedding = NoEmbedding
    /\ search_req = None
    /\ store_rows = <<>>
    /\ pos = 0
    /\ docs_with_score = <<>>
    /\ outcome = Running
    /\ embedCalls = 0
    /\ storeCalls = 0
    /\ storeError = "none"
    /\ embeddedBefore = {}
    /\ ipc = "start"
    /\ run = 1
    /\ csv \in IF entry = "ingest" THEN [RowIdx -> CsvRows] ELSE {[j \in RowIdx |-> CleanRow]}
    /\ data_in_dict = <<>>
    /\ idx = 1
    /\ row = NoRow
    /\ collection = NoDocs
    /\ issued = {}
    /\ embedReq = ZeroPerRow
    /\ upsertReq = ZeroPerRow
    /\ failedRows = {}
    /\ succeededRows = {}
    /\ okUpserts = 0

Next ==
    \/ CallCreateFilter
    \/ FilterConsumed
    \/ SearchInvoke
    \/ SearchEmbed
    \/ SearchCreateRequest
    \/ SearchIssue
    \/ SearchReadRow
    \/ SearchReturn
    \/ SearchFinish
    \/ IngestSetup
    \/ IngestEmbed
    \/ IngestUpsert
    \/ IngestLoopEnd
    \/ IngestRerun

Spec == Init /\ [][Next]_vars

(***************************************************************************)
(* Properties                                                              *)
(***************************************************************************)
Conjuncts == filter.query.conjuncts
HasConjunct(c) == \E n \in DOMAIN Conjuncts : Conjuncts[n] = c
RatingConjunct(r) == [min |-> r, inclusive_min |-> FALSE, field |-> "IMDB_Rating"]
YearConjunct(lo, hi) ==
    [min |-> lo, max |-> hi, inclusive_min |-> TRUE, inclusive_max |-> TRUE,
     field |-> "Released_Year"]
RunEnded == entry = "ingest" /\ ipc \in {"done", "error"}

\* C1: a failing embedding or upsert aborts its row only: when a run in which
\* some rows failed has ended, every other row of the dataset was upserted
\* (succeeded = N - |F|, failed = |F|).
C1_FailureAbortsRowOnly ==
    (RunEnded /\ failedRows # {}) =>
        /\ succeededRows = RowIdx \ failedRows
        /\ Cardinality(succeededRows) = NumRows - Cardinality(failedRows)

\* C2: for every minimum rating r, 0.0 included, the returned predicate has the
\* conjunct {min: r, inclusive_min: false, field: IMDB_Rating} with no max.
C2_RatingConjunctForEveryRating ==
    (fpc = "returned" /\ fargs.rating.tag = "float") =>
        HasConjunct(RatingConjunct(fargs.rating.val))

\* C2 as amended: for every nonzero minimum rating r the returned predicate has
\* the conjunct {min: r, inclusive_min: false, field: IMDB_Rating} with no max;
\* for r = 0.0 the predicate has no conjunct on IMDB_Rating.
C2_RatingConjunctForNonzeroRating ==
    (fpc = "returned" /\ fargs.rating.tag = "float") =>
        IF fargs.rating.val # 0
        THEN HasConjunct(RatingConjunct(fargs.rating.val))
        ELSE \A n \in DOMAIN Conjuncts : Conjuncts[n].field # "IMDB_Rating"

C2_Witness ==
    /\ fpc = "returned"
    /\ fargs.rating = PyFloat(MaxRating)
    /\ Truthy(fargs.year_range)
    /\ Conjuncts[2] = RatingConjunct(MaxRating)

\* C3: search_couchbase rejects k < 1 with InvalidArgument before it calls the
\* embedding client or the store.
C3_RejectsBadKBeforeAnyCall ==
    (entry = "search_couchbase" /\ invocation > 0 /\ k < 1) =>
        /\ embedCalls = 0
        /\ storeCalls = 0
        /\ spc \in {"done", "idle"} => outcome = Raised("InvalidArgument")

\* C4: the list search_couchbase returns has the length of the store's row
\* sequence, and its i-th element is (fields, score) of the store's i-th row.
C4_ResultsUnmodified ==
    outcome.status = "returned" =>
        /\ Len(outcome.value) = Len(store_rows)
        /\ \A n \in 1..Len(store_rows) :
             outcome.value[n] = <<store_rows[n].fields, store_rows[n].score>>

C4_Witness ==
    /\ outcome.status = "returned"
    /\ Len(store_rows) = 2
    /\ store_rows[1].score < store_rows[2].score
    /\ store_rows[1].fields # store_rows[2].fields

\* C5: when the store search fails, on issue or while its rows are read,
\* search_couchbase raises that error and returns no list, not even the rows
\* read before the failure.
C5_StoreErrorFailsTheCall ==
    storeError # "none" =>
        /\ outcome.status = "raised"
        /\ outcome.error = storeError
        /\ outcome.value = <<>>
        /\ spc \in {"done", "idle"}

C5_Witness ==
    /\ storeError # "none"
    /\ pos >= 1
    /\ Len(docs_with_score) = pos
    /\ outcome.status = "raised"

\* C6: ingestion never overwrites a document: every successful upsert adds one
\* document under an id uuid4 issued, so the collection holds as many documents
\* as upserts succeeded (2N after two clean runs over the same N rows).
C6_EveryUpsertAddsADocument ==
    /\ Cardinality(DOMAIN collection) = okUpserts
    /\ DOMAIN collection \subseteq issued
    /\ (run = 2 /\ ipc = "done" /\ okUpserts = 2 * NumRows) =>
           Cardinality(DOMAIN collection) = 2 * NumRows

C6_Witness ==
    /\ run = 2
    /\ ipc = "done"
    /\ Cardinality(DOMAIN collection) = 2 * NumRows
    /\ \E a \in DOMAIN collection, b \in DOMAIN collection :
           a # b /\ collection[a] = collection[b]

\* C7: every stored document holds a number in each numeric field.
C7_NumericFieldsHoldNumbers ==
    \A id \in DOMAIN collection : \A f \in NumericFields : collection[id][f].t = "float"

\* C8: for a year range (lo, hi) with lo <= hi the returned predicate has the
\* conjunct {min: lo, max: hi, inclusive_min: true, inclusive_max: true,
\* field: Released_Year}.
C8_YearConjunct ==
    (/\ fpc = "returned"
     /\ fargs.year_range.tag = "tuple"
     /\ Len(fargs.year_range.items) = 2
     /\ fargs.year_range.items[1] <= fargs.year_range.items[2]) =>
        HasConjunct(YearConjunct(fargs.year_range.items[1], fargs.year_range.items[2]))

C8_Witness ==
    /\ fpc = "returned"
    /\ fargs.year_range = PyTuple(<<0, 1>>)
    /\ Conjuncts[1] = YearConjunct(0, 1)

\* C9: with no year range, no minimum rating and title search disabled, the
\* returned predicate has an empty conjunct list, whatever the title text.
C9_NoConstraintNoConjunct ==
    (/\ fpc = "returned"
     /\ fargs.year_range \in {None, PyTuple(<<>>)}
     /\ fargs.rating \in {None, PyFloat(0)}
     /\ ~fargs.search_in_title) =>
        Conjuncts = <<>>

C9_Witness ==
    /\ fpc = "returned"
    /\ fargs.year_range = None
    /\ fargs.rating = None
    /\ ~fargs.search_in_title
    /\ fargs.title = "space adventure"
    /\ Conjuncts = <<>>

\* C10: no retry and no cache: an invocation of search_couchbase that got past
\* line 135 has issued exactly one embedding request, failed or not, and at most
\* one store search; every row the ingestion loop has taken up has issued exactly
\* one embedding request and at most one upsert, and no other row any.
RowTakenUp(j) == j < idx \/ (j = idx /\ (ipc = "upsert" \/ j \in failedRows))
C10_OneRequestNoRetryNoCache ==
    /\ embedCalls = (IF invocation = 0 \/ spc = "embed" THEN 0 ELSE 1)
    /\ storeCalls <= 1
    /\ (outcome.status = "returned" \/ storeError # "none") => storeCalls = 1
    /\ \A j \in RowIdx :
         /\ embedReq[j] = (IF RowTakenUp(j) THEN 1 ELSE 0)
         /\ upsertReq[j] <= 1
         /\ j \in succeededRows => upsertReq[j] = 1

C10_Witness ==
    /\ invocation = 2
    /\ search_text \in embeddedBefore
    /\ spc = "done"
    /\ outcome.status = "returned"
    /\ embedCalls = 1
    /\ storeCalls = 1

====
